---- MODULE Spec2Model ----
(***************************************************************************)
(* popover-lite: placement selection and the reactive controller.          *)
(*                                                                         *)
(* Two generations of the library are modelled side by side:               *)
(*   Policy A  - v0.2.0, first fit with fallbacks   (src/unnamed/part_000) *)
(*   Policy B  - v0.1.2, scoring                    (src/src/index.ts)     *)
(*                                                                         *)
(* Lengths are small integers.  Policy B halves widths and heights, so its *)
(* scores are kept in doubled units (score2 = 2 * score); the order of two *)
(* scores is the order of their doubles.                                   *)
(***************************************************************************)
EXTENDS Integers, Sequences, FiniteSets, TLC

VARIABLES
    opts,           \* options after defaulting: policy, placement, fallbacks, preference
    cap,            \* which Popover API methods the platform has
    rect,           \* anchor.getBoundingClientRect(): top, left, width, height
    viewport,       \* window.innerWidth / innerHeight
    panel,          \* popover.offsetWidth / offsetHeight
    placementAttr,  \* the --placement variable and data attribute of the panel
    open,           \* the panel matches :popover-open
    display,        \* the panel's inline style.display (Policy A fallback)
    observed,       \* elements the ResizeObserver observes
    listeners,      \* scroll parents that carry the update listener
    destroyed,      \* destroy() has run (the panel is removed from the document)
    lastEvent       \* the operation or signal of the last step, and whether it ran update()

vars == <<opts, cap, rect, viewport, panel, placementAttr, open, display,
          observed, listeners, destroyed, lastEvent>>

geom == <<rect, viewport, panel>>

(***************************************************************************)
(* Bounds                                                                  *)
(***************************************************************************)
MaxPos == 1
MinAnchor == 1
MaxAnchor == 2
MinView == 2
MaxView == 3
MinPanel == 1
MaxPanel == 2
MaxFallbacks == 2
MaxOrder == 2
BiasValue == 3

Positions == 0..MaxPos
AnchorSizes == MinAnchor..MaxAnchor
ViewSizes == MinView..MaxView
PanelSizes == MinPanel..MaxPanel

Rects == [top : Positions, left : Positions, width : AnchorSizes, height : AnchorSizes]
Viewports == [width : ViewSizes, height : ViewSizes]
Footprints == [width : PanelSizes, height : PanelSizes]

(***************************************************************************)
(* Types                                                                   *)
(***************************************************************************)
Placement == {"top", "bottom", "left", "right"}

\* Object.values(candidates): the insertion order of the four keys
CandidateOrder == <<"top", "bottom", "left", "right">>

RECURSIVE SeqsUpTo(_, _)
SeqsUpTo(S, n) ==
    IF n = 0 THEN {<<>>}
    ELSE LET shorter == SeqsUpTo(S, n - 1)
         IN  shorter \cup {Append(s, x) : s \in {t \in shorter : Len(t) = n - 1}, x \in S}

Range(s) == {s[i] : i \in 1..Len(s)}

Abs(x) == IF x < 0 THEN -x ELSE x
Max(a, b) == IF a >= b THEN a ELSE b

\* An optional option: <<>> when omitted, <<v>> when given
Option(S) == {<<>>} \cup {<<v>> : v \in S}

(***************************************************************************)
(* Policy A: getAvailableSpace and findBestPlacement                       *)
(***************************************************************************)
\* getAvailableSpace that floors the space at zero
getAvailableSpaceClamped(r, vp, placement) ==
    CASE placement = "top"    -> Max(r.top, 0)
      [] placement = "bottom" -> Max(vp.height - (r.top + r.height), 0)
      [] placement = "left"   -> Max(r.left, 0)
      [] placement = "right"  -> Max(vp.width - (r.left + r.width), 0)

getAvailableSpace(r, vp, placement) ==
    CASE placement = "top"    -> r.top
      [] placement = "bottom" -> vp.height - (r.top + r.height)
      [] placement = "left"   -> r.left
      [] placement = "right"  -> vp.width - (r.left + r.width)

\* the footprint dimension a side needs
requiredSpace(needed, placement) ==
    IF placement = "top" \/ placement = "bottom" THEN needed.height ELSE needed.width

Fits(r, vp, needed, placement) ==
    getAvailableSpace(r, vp, placement) >= requiredSpace(needed, placement)

\* the loop over the fallbacks: the first that fits, "none" when the loop falls through
RECURSIVE FirstFitLast(_, _, _, _)
FirstFitLast(r, vp, needed, fallbacks) ==
    IF fallbacks = <<>> THEN "none"
    ELSE LET n == Len(fallbacks)
         IN  IF Fits(r, vp, needed, fallbacks[n]) THEN fallbacks[n]
             ELSE FirstFitLast(r, vp, needed, SubSeq(fallbacks, 1, n - 1))

RECURSIVE FirstFit(_, _, _, _)
FirstFit(r, vp, needed, fallbacks) ==
    IF fallbacks = <<>> THEN "none"
    ELSE IF Fits(r, vp, needed, Head(fallbacks)) THEN Head(fallbacks)
    ELSE FirstFit(r, vp, needed, Tail(fallbacks))

\* options.reduce(...) with  currentSpace >= bestSpace  in place of  >
RECURSIVE MostSpaceLastWins(_, _, _)
MostSpaceLastWins(r, vp, options) ==
    IF Len(options) = 1 THEN options[1]
    ELSE LET n       == Len(options)
             best    == MostSpaceLastWins(r, vp, SubSeq(options, 1, n - 1))
             current == options[n]
         IN  IF getAvailableSpace(r, vp, current) >= getAvailableSpace(r, vp, best)
             THEN current ELSE best

\* options.reduce((best, current) => currentSpace > bestSpace ? current : best)
RECURSIVE MostSpace(_, _, _)
MostSpace(r, vp, options) ==
    IF Len(options) = 1 THEN options[1]
    ELSE LET n       == Len(options)
             best    == MostSpace(r, vp, SubSeq(options, 1, n - 1))
             current == options[n]
         IN  IF getAvailableSpace(r, vp, current) > getAvailableSpace(r, vp, best)
             THEN current ELSE best

\* findBestPlacement without the fallback loop: most space when the preferred side fails
findBestPlacementNoFallbackScan(r, vp, needed, preferred, fallbacks) ==
    IF Fits(r, vp, needed, preferred) THEN preferred
    ELSE MostSpace(r, vp, <<preferred>> \o fallbacks)

\* findBestPlacement that scans the fallbacks before it tries the preferred side
findBestPlacementFallbacksFirst(r, vp, needed, preferred, fallbacks) ==
    IF FirstFit(r, vp, needed, fallbacks) # "none"
    THEN FirstFit(r, vp, needed, fallbacks)
    ELSE IF Fits(r, vp, needed, preferred) THEN preferred
    ELSE MostSpace(r, vp, <<preferred>> \o fallbacks)

findBestPlacement(r, vp, needed, preferred, fallbacks) ==
    IF Fits(r, vp, needed, preferred) THEN preferred
    ELSE IF FirstFit(r, vp, needed, fallbacks) # "none"
    THEN FirstFit(r, vp, needed, fallbacks)
    ELSE MostSpace(r, vp, <<preferred>> \o fallbacks)

(***************************************************************************)
(* Policy B: computeScores and computeBest (scores in doubled units)       *)
(***************************************************************************)
\* prefs.side ?? 0
prefOf(prefs, placement) ==
    IF placement \in DOMAIN prefs THEN prefs[placement] ELSE 0

\* misalign measured from the panel's centre when the panel starts at the viewport origin
misalign2FromOrigin(r, size, placement) ==
    IF placement = "top" \/ placement = "bottom"
    THEN Abs((2 * r.left + r.width) - size.width)
    ELSE Abs((2 * r.top + r.height) - size.height)

\* Math.abs(r.left + r.width / 2 - (r.left + size.width / 2)) for top and bottom,
\* Math.abs(r.top + r.height / 2 - (r.top + size.height / 2)) for left and right; doubled
misalign2(r, size, placement) ==
    IF placement = "top" \/ placement = "bottom"
    THEN Abs((2 * r.left + r.width) - (2 * r.left + size.width))
    ELSE Abs((2 * r.top + r.height) - (2 * r.top + size.height))

\* the candidates table, in key order, before the scores are filled in
candidates(r, vp, size, prefs) ==
    LET bottom == r.top + r.height
        right  == r.left + r.width
    IN  << [placement  |-> "top",
            space      |-> r.top,
            overflow   |-> Max(size.height - r.top, 0),
            misalign2  |-> misalign2(r, size, "top"),
            preference |-> prefOf(prefs, "top"),
            score2     |-> 0],
           [placement  |-> "bottom",
            space      |-> vp.height - bottom,
            overflow   |-> Max(size.height - (vp.height - bottom), 0),
            misalign2  |-> misalign2(r, size, "bottom"),
            preference |-> prefOf(prefs, "bottom"),
            score2     |-> 0],
           [placement  |-> "left",
            space      |-> r.left,
            overflow   |-> Max(size.width - r.left, 0),
            misalign2  |-> misalign2(r, size, "left"),
            preference |-> prefOf(prefs, "left"),
            score2     |-> 0],
           [placement  |-> "right",
            space      |-> vp.width - right,
            overflow   |-> Max(size.width - (vp.width - right), 0),
            misalign2  |-> misalign2(r, size, "right"),
            preference |-> prefOf(prefs, "right"),
            score2     |-> 0] >>

\* the score loop without the preference term
scoredNoPreference(cs) ==
    [i \in 1..Len(cs) |->
        [cs[i] EXCEPT !.score2 = 2 * cs[i].space - 2 * cs[i].overflow - cs[i].misalign2]]

\* s.score = s.space - s.overflow - s.misalign + s.preference, for every candidate; doubled
scored(cs) ==
    [i \in 1..Len(cs) |->
        [cs[i] EXCEPT !.score2 = 2 * cs[i].space - 2 * cs[i].overflow
                                 - cs[i].misalign2 + 2 * cs[i].preference]]

\* Array.prototype.sort((a, b) => b.score - a.score): stable, descending
RECURSIVE insertByScore(_, _)
insertByScore(x, s) ==
    IF s = <<>> THEN <<x>>
    ELSE IF Head(s).score2 >= x.score2 THEN <<Head(s)>> \o insertByScore(x, Tail(s))
    ELSE <<x>> \o s

RECURSIVE sortByScore(_)
sortByScore(s) ==
    IF s = <<>> THEN <<>>
    ELSE insertByScore(s[Len(s)], sortByScore(SubSeq(s, 1, Len(s) - 1)))

\* computeScores that returns only the candidates without overflow
computeScoresFitting(r, vp, size, prefs) ==
    sortByScore(SelectSeq(scored(candidates(r, vp, size, prefs)),
                          LAMBDA c : c.overflow = 0))

computeScores(r, vp, size, prefs) ==
    sortByScore(scored(candidates(r, vp, size, prefs)))

\* scores.find(x => x.placement === p): index of the first match, 0 when there is none
findIndex(scores, p) ==
    IF \E i \in 1..Len(scores) : scores[i].placement = p
    THEN CHOOSE i \in 1..Len(scores) :
            /\ scores[i].placement = p
            /\ \A j \in 1..(i - 1) : scores[j].placement # p
    ELSE 0

\* the bonus of the side at position i (1-based here, 0-based in the source); doubled
BonusUnit == 10000
bonus2(order, i) == 2 * ((Len(order) - (i - 1)) * BonusUnit)

\* the loop of computeBest over order[i..]: s.score += bonus, in place
RECURSIVE applyBonus(_, _, _)
applyBonus(scores, order, i) ==
    IF i > Len(order) THEN scores
    ELSE LET k == findIndex(scores, order[i])
             next == IF k = 0 THEN scores
                     ELSE [scores EXCEPT ![k].score2 = @ + bonus2(order, i)]
         IN  applyBonus(next, order, i + 1)

\* the scores array as computeBest leaves it
finalScores(r, vp, size, order, prefs) ==
    applyBonus(computeScores(r, vp, size, prefs), order, 1)

\* scores[0].placement; reading element 0 of an empty array throws, no side is returned
computeBest(r, vp, size, order, prefs) ==
    LET scores == finalScores(r, vp, size, order, prefs)
    IN  IF scores = <<>> THEN "none" ELSE scores[1].placement

(***************************************************************************)
(* Options                                                                 *)
(***************************************************************************)
\* a placement option: one side, or (Policy B) an array of sides
single(p) == [isArray |-> FALSE, sides |-> <<p>>]
array(s)  == [isArray |-> TRUE, sides |-> s]

\* Array.isArray(placement) ? placement : [placement]
orderOf(placement) ==
    IF placement.isArray THEN placement.sides ELSE <<placement.sides[1]>>

\* Array.isArray(placement) ? placement[0] : placement; element 0 of [] is undefined
firstOf(placement) ==
    IF placement.isArray
    THEN IF placement.sides = <<>> THEN "undefined" ELSE placement.sides[1]
    ELSE placement.sides[1]

\* ["top", "right", "left"].filter((p) => p !== placement)
defaultFallbacks(placement) ==
    SelectSeq(<<"top", "right", "left">>, LAMBDA p : p # placement)

\* the destructuring defaults of createPopover, Policy A
optionsA(in) ==
    LET placement == IF in.placement = <<>> THEN "bottom" ELSE in.placement[1].sides[1]
    IN  [policy     |-> "A",
         placement  |-> single(placement),
         fallbacks  |-> IF in.fallbacks = <<>> THEN defaultFallbacks(placement)
                        ELSE in.fallbacks[1],
         preference |-> <<>>]

\* the destructuring defaults of createPopover, Policy B
optionsB(in) ==
    [policy     |-> "B",
     placement  |-> IF in.placement = <<>> THEN single("bottom") ELSE in.placement[1],
     fallbacks  |-> <<>>,
     preference |-> IF in.preference = <<>> THEN <<>> ELSE in.preference[1]]

options(in) == IF in.policy = "A" THEN optionsA(in) ELSE optionsB(in)

preferredOf(o) == o.placement.sides[1]

(***************************************************************************)
(* The document around the anchor                                          *)
(***************************************************************************)
\* the anchor's ancestors, innermost first, with their computed overflow
Ancestors == << [name |-> "wrapper",  overflow |-> "visible"],
                [name |-> "scroller", overflow |-> "auto"],
                [name |-> "body",     overflow |-> "visible"] >>

\* /auto|scroll|overlay/.test(overflow)
scrolls(el) == el.overflow \in {"auto", "scroll", "overlay"}

\* the elements getScrollParents returns, as a set
getScrollParents ==
    {Ancestors[i].name : i \in {j \in 1..Len(Ancestors) : scrolls(Ancestors[j])}}
        \cup {"documentElement"}

\* the elements of the document that can emit a scroll event
ScrollSources == {Ancestors[i].name : i \in 1..Len(Ancestors)} \cup {"documentElement"}

PopoverAPI == {"showPopover", "hidePopover", "togglePopover"}

\* platforms: the full Popover API, togglePopover alone, no Popover API
Caps == {PopoverAPI, {"togglePopover"}, {}}

(***************************************************************************)
(* The selector the controller runs                                        *)
(***************************************************************************)
Select(o, r, vp, size) ==
    IF o.policy = "A"
    THEN findBestPlacement(r, vp, size, preferredOf(o), o.fallbacks)
    ELSE computeBest(r, vp, size, orderOf(o.placement), o.preference)

\* update() that keeps the current placement while it still has room
runUpdateSticky(r, vp, size) ==
    placementAttr' =
        IF placementAttr \in Placement /\ Fits(r, vp, size, placementAttr)
        THEN placementAttr
        ELSE Select(opts, r, vp, size)

\* the body of update(): setPlacement(popover, best)
runUpdate(r, vp, size) ==
    placementAttr' = Select(opts, r, vp, size)

(***************************************************************************)
(* Native Popover API of the platform (HTML standard)                      *)
(***************************************************************************)
\* showPopover(): throws on a disconnected element, no effect on a showing one
nativeShow(isOpen, connected) == IF connected THEN TRUE ELSE isOpen
\* hidePopover(): throws on a disconnected element, no effect on a hidden one
nativeHide(isOpen, connected) == IF connected THEN FALSE ELSE isOpen
\* togglePopover(): throws on a disconnected element
nativeToggle(isOpen, connected) == IF connected THEN ~isOpen ELSE isOpen

(***************************************************************************)
(* Construction                                                            *)
(***************************************************************************)
BiasMaps == UNION {[D -> {BiasValue}] : D \in {E \in SUBSET Placement : Cardinality(E) <= 1}}

InputsA == [policy     : {"A"},
            placement  : Option({single(p) : p \in Placement}),
            fallbacks  : Option(SeqsUpTo(Placement, MaxFallbacks)),
            preference : {<<>>}]

InputsB == [policy     : {"B"},
            placement  : Option({single(p) : p \in Placement}
                                \cup {array(q) : q \in SeqsUpTo(Placement, MaxOrder)}),
            fallbacks  : {<<>>},
            preference : Option(BiasMaps)]

\* the configurations the controller is run with
CtrlInputs ==
    { [policy |-> "A", placement |-> <<>>, fallbacks |-> <<>>, preference |-> <<>>],
      [policy |-> "A", placement |-> <<single("top")>>,
       fallbacks |-> << <<"right", "bottom">> >>, preference |-> <<>>],
      [policy |-> "B", placement |-> <<>>, fallbacks |-> <<>>, preference |-> <<>>],
      [policy |-> "B", placement |-> <<array(<<"left", "top">>)>>, fallbacks |-> <<>>,
       preference |-> << [x \in {"right"} |-> BiasValue] >>],
      [policy |-> "B", placement |-> <<array(<<>>)>>, fallbacks |-> <<>>,
       preference |-> <<>>] }

HomeRect == [top |-> MaxPos, left |-> 1, width |-> MinAnchor, height |-> MinAnchor]
HomeView == [width |-> MaxView, height |-> MaxView]
HomePanel == [width |-> MinPanel, height |-> MinPanel]

\* the state createPopover leaves behind
createPopover(in, c, r, vp, size) ==
    /\ opts = options(in)
    /\ cap = c
    /\ rect = r
    /\ viewport = vp
    /\ panel = size
    /\ placementAttr = firstOf(options(in).placement)
    /\ open = FALSE
    /\ display = ""
    /\ observed = IF in.policy = "A" THEN {"anchor", "popover"} ELSE {"anchor"}
    /\ listeners = getScrollParents
    /\ destroyed = FALSE
    /\ lastEvent = [kind |-> "create", ranUpdate |-> FALSE]

\* Policy A tests showPopover and hidePopover only
CapsOf(policy) == IF policy = "A" THEN {PopoverAPI, {}} ELSE Caps

Init ==
    \E in \in CtrlInputs :
        \E c \in CapsOf(in.policy) :
            createPopover(in, c, HomeRect, HomeView, HomePanel)

InitSel ==
    \E in \in InputsA \cup InputsB, r \in Rects, vp \in Viewports, size \in Footprints :
        createPopover(in, PopoverAPI, r, vp, size)

(***************************************************************************)
(* Operations of the controller                                            *)
(***************************************************************************)
\* the panel is shown, as toggle() of Policy A reads it
isOpenA == open \/ display = "block"

visible == IF opts.policy = "A" THEN isOpenA ELSE open

\* show() that requests display without update()
showEffectNoUpdate ==
    /\ placementAttr' = placementAttr
    /\ IF opts.policy = "A"
       THEN IF "showPopover" \in cap
            THEN open' = nativeShow(open, ~destroyed) /\ display' = display
            ELSE open' = open /\ display' = "block"
       ELSE /\ display' = display
            /\ open' = IF "showPopover" \in cap THEN nativeShow(open, ~destroyed)
                       ELSE IF "togglePopover" \in cap THEN nativeToggle(open, ~destroyed)
                       ELSE open

\* show(): update(), then showPopover() or the fallback
showEffect ==
    /\ runUpdate(rect, viewport, panel)
    /\ IF opts.policy = "A"
       THEN IF "showPopover" \in cap
            THEN open' = nativeShow(open, ~destroyed) /\ display' = display
            ELSE open' = open /\ display' = "block"
       ELSE /\ display' = display
            /\ open' = IF "showPopover" \in cap THEN nativeShow(open, ~destroyed)
                       ELSE IF "togglePopover" \in cap THEN nativeToggle(open, ~destroyed)
                       ELSE open

\* hide() that puts the placement back to the constructed one
hideEffectResets ==
    /\ placementAttr' = firstOf(opts.placement)
    /\ IF opts.policy = "A"
       THEN IF "hidePopover" \in cap
            THEN open' = nativeHide(open, ~destroyed) /\ display' = display
            ELSE open' = open /\ display' = "none"
       ELSE /\ display' = display
            /\ open' = IF "hidePopover" \in cap THEN nativeHide(open, ~destroyed)
                       ELSE IF "togglePopover" \in cap THEN nativeToggle(open, ~destroyed)
                       ELSE open

\* hide(): hidePopover() or the fallback
hideEffect ==
    /\ placementAttr' = placementAttr
    /\ IF opts.policy = "A"
       THEN IF "hidePopover" \in cap
            THEN open' = nativeHide(open, ~destroyed) /\ display' = display
            ELSE open' = open /\ display' = "none"
       ELSE /\ display' = display
            /\ open' = IF "hidePopover" \in cap THEN nativeHide(open, ~destroyed)
                       ELSE IF "togglePopover" \in cap THEN nativeToggle(open, ~destroyed)
                       ELSE open

\* update() that goes through show()
updateShows ==
    /\ showEffect
    /\ lastEvent' = [kind |-> "update", ranUpdate |-> TRUE]
    /\ UNCHANGED <<opts, cap, rect, viewport, panel, observed, listeners, destroyed>>

update ==
    /\ runUpdate(rect, viewport, panel)
    /\ lastEvent' = [kind |-> "update", ranUpdate |-> TRUE]
    /\ UNCHANGED <<opts, cap, rect, viewport, panel, open, display,
                   observed, listeners, destroyed>>

show ==
    /\ showEffect
    /\ lastEvent' = [kind |-> "show", ranUpdate |-> TRUE]
    /\ UNCHANGED <<opts, cap, rect, viewport, panel, observed, listeners, destroyed>>

hide ==
    /\ hideEffect
    /\ lastEvent' = [kind |-> "hide", ranUpdate |-> FALSE]
    /\ UNCHANGED <<opts, cap, rect, viewport, panel, observed, listeners, destroyed>>

toggle ==
    /\ IF visible THEN hideEffect ELSE showEffect
    /\ lastEvent' = [kind |-> "toggle", ranUpdate |-> ~visible]
    /\ UNCHANGED <<opts, cap, rect, viewport, panel, observed, listeners, destroyed>>

\* destroy() that leaves the scroll listeners registered
destroyKeepsListeners ==
    /\ observed' = {}
    /\ listeners' = listeners
    /\ open' = FALSE
    /\ destroyed' = TRUE
    /\ lastEvent' = [kind |-> "destroy", ranUpdate |-> FALSE]
    /\ UNCHANGED <<opts, cap, rect, viewport, panel, placementAttr, display>>

\* disconnect the observer, remove the scroll listeners, remove the panel
destroy ==
    /\ observed' = {}
    /\ listeners' = {}
    /\ open' = FALSE
    /\ destroyed' = TRUE
    /\ lastEvent' = [kind |-> "destroy", ranUpdate |-> FALSE]
    /\ UNCHANGED <<opts, cap, rect, viewport, panel, placementAttr, display>>

(***************************************************************************)
(* Signals of the platform.  In the controller runs the page varies along  *)
(* the vertical axis (scroll offset, anchor height, window height); the    *)
(* panel varies in both dimensions.  Each action is a change of geometry   *)
(* together with the callback the platform runs for it, if any.            *)
(***************************************************************************)
\* a signal reaches the update callback when its subscription is still registered
deliver(kind, subscribed, r, vp, size) ==
    /\ IF subscribed THEN runUpdate(r, vp, size) ELSE placementAttr' = placementAttr
    /\ lastEvent' = [kind |-> kind, ranUpdate |-> subscribed]

\* the anchor changes height; the ResizeObserver calls back if it observes the anchor
anchorResize ==
    \E h \in AnchorSizes :
        /\ h # rect.height
        /\ rect' = [rect EXCEPT !.height = h]
        /\ deliver("anchorResize", "anchor" \in observed, rect', viewport, panel)
        /\ UNCHANGED <<opts, cap, viewport, panel, open, display,
                       observed, listeners, destroyed>>

\* the panel changes size; the ResizeObserver calls back if it observes the panel
panelResize ==
    \E w \in PanelSizes, h \in PanelSizes :
        /\ <<w, h>> # <<panel.width, panel.height>>
        /\ panel' = [width |-> w, height |-> h]
        /\ deliver("panelResize", "popover" \in observed, rect, viewport, panel')
        /\ UNCHANGED <<opts, cap, rect, viewport, open, display,
                       observed, listeners, destroyed>>

\* a scroll parent scrolls vertically and moves the anchor; its scroll listener runs
\* if it is still registered
scroll ==
    \E src \in getScrollParents, t \in Positions :
        /\ t # rect.top
        /\ rect' = [rect EXCEPT !.top = t]
        /\ deliver("scroll", src \in listeners, rect', viewport, panel)
        /\ UNCHANGED <<opts, cap, viewport, panel, open, display,
                       observed, listeners, destroyed>>

\* the window changes height; the controller subscribes to nothing that reports it
viewportResize ==
    \E h \in ViewSizes :
        /\ h # viewport.height
        /\ viewport' = [viewport EXCEPT !.height = h]
        /\ deliver("viewportResize", FALSE, rect, viewport', panel)
        /\ UNCHANGED <<opts, cap, rect, panel, open, display,
                       observed, listeners, destroyed>>

Next ==
    \/ update
    \/ show
    \/ hide
    \/ toggle
    \/ destroy
    \/ anchorResize
    \/ panelResize
    \/ scroll
    \/ viewportResize

Spec == Init /\ [][Next]_vars

\* the selectors alone, over every configuration and geometry within the bounds
NextSel == update

SelSpec == InitSel /\ [][NextSel]_vars

(***************************************************************************)
(* Properties                                                              *)
(***************************************************************************)
isA == opts.policy = "A"
isB == opts.policy = "B"
updated == lastEvent.kind = "update"

preferred == preferredOf(opts)
fallbacks == opts.fallbacks
candidatesA == <<preferred>> \o fallbacks
order == orderOf(opts.placement)

spaceOf(p) == getAvailableSpace(rect, viewport, p)
fits(p) == spaceOf(p) >= requiredSpace(panel, p)

\* the selector's result for the current geometry and configuration
selected == Select(opts, rect, viewport, panel)

SignalKinds == {"anchorResize", "panelResize", "scroll", "viewportResize"}

\* C1: each selector returns exactly one value and it is one of top, bottom, left,
\* right: whatever the configuration and geometry, the placement an evaluation
\* writes is one of the four sides.
C1_ReturnsOneSide ==
    updated => placementAttr \in Placement

\* Policy B evaluated where the panel overflows on all four sides
C1_Witness ==
    /\ updated
    /\ isB
    /\ \A p \in Placement : ~fits(p)
    /\ placementAttr \in Placement

\* C2: Policy A returns the preferred side whenever the preferred side's available
\* space is at least its required dimension, whatever the fallback list.
C2_PreferredWhenFits ==
    (updated /\ isA /\ fits(preferred)) => placementAttr = preferred

\* the preferred side fits, and so does a different side at the head of the fallbacks
C2_Witness ==
    /\ updated
    /\ isA
    /\ fits(preferred)
    /\ fallbacks # <<>>
    /\ fallbacks[1] # preferred
    /\ fits(fallbacks[1])
    /\ placementAttr = preferred

\* C3: Policy A, preferred side does not fit and some fallback fits: the result is
\* the first side of the fallback list, in list order, that fits.
C3_FirstFittingFallback ==
    (updated /\ isA /\ ~fits(preferred) /\ \E i \in 1..Len(fallbacks) : fits(fallbacks[i]))
        => \E i \in 1..Len(fallbacks) :
              /\ fits(fallbacks[i])
              /\ \A j \in 1..(i - 1) : ~fits(fallbacks[j])
              /\ placementAttr = fallbacks[i]

\* the preferred side and the first fallback do not fit, the second fallback does
C3_Witness ==
    /\ updated
    /\ isA
    /\ ~fits(preferred)
    /\ Len(fallbacks) = 2
    /\ ~fits(fallbacks[1])
    /\ fits(fallbacks[2])
    /\ placementAttr = fallbacks[2]

\* C4: Policy A, nothing among preferred + fallbacks fits: the result is the side of
\* that sequence with the greatest available space, the earliest of them on a tie.
C4_MostSpaceEarliest ==
    (updated /\ isA /\ \A i \in 1..Len(candidatesA) : ~fits(candidatesA[i]))
        => \E i \in 1..Len(candidatesA) :
              /\ \A j \in 1..Len(candidatesA) : spaceOf(candidatesA[j]) <= spaceOf(candidatesA[i])
              /\ \A j \in 1..(i - 1) : spaceOf(candidatesA[j]) < spaceOf(candidatesA[i])
              /\ placementAttr = candidatesA[i]

\* nothing fits and two different sides tie for the greatest space
C4_Witness ==
    /\ updated
    /\ isA
    /\ \A i \in 1..Len(candidatesA) : ~fits(candidatesA[i])
    /\ \E i, j \in 1..Len(candidatesA) :
          /\ i < j
          /\ candidatesA[i] # candidatesA[j]
          /\ spaceOf(candidatesA[i]) = spaceOf(candidatesA[j])
          /\ \A k \in 1..Len(candidatesA) : spaceOf(candidatesA[k]) <= spaceOf(candidatesA[i])
          /\ placementAttr = candidatesA[i]

\* C5: Policy B, the positional bonus dominates the raw score: with a non-empty
\* preference sequence the side computeBest selects is a member of that sequence.
C5_SelectedIsPreferred ==
    (updated /\ isB /\ order # <<>>) => placementAttr \in Range(order)

\* the final score (raw score plus bonus, doubled) computeBest gives a side
finalScoreOf(p) ==
    LET fs == finalScores(rect, viewport, panel, order, opts.preference)
    IN  fs[findIndex(fs, p)].score2

\* position of a side in the enumeration top, bottom, left, right
enumIndex(p) == CHOOSE i \in 1..4 : CandidateOrder[i] = p

\* C6: Policy B returns the side whose final score (raw score plus positional bonus)
\* is maximal over the four sides, the first in the order top, bottom, left, right
\* among those that share the maximum.
C6_MaxFinalScore ==
    (updated /\ isB)
        => /\ placementAttr \in Placement
           /\ \A p \in Placement : finalScoreOf(p) <= finalScoreOf(placementAttr)
           /\ \A p \in Placement :
                 finalScoreOf(p) = finalScoreOf(placementAttr)
                    => enumIndex(placementAttr) <= enumIndex(p)

\* C7: evaluation is a pure function of the current geometry and configuration:
\* the side an update() writes is the selector's result for the geometry at hand,
\* whatever happened before, and an update() right after an update() writes the
\* same side again.
C7_PureEvaluation ==
    /\ [](updated => placementAttr = selected)
    /\ [][(updated /\ lastEvent'.kind = "update") => placementAttr' = placementAttr]_vars

\* an update() on a shown panel, after earlier operations, that moved the panel away
\* from the placement it was constructed with
C7_Witness ==
    /\ updated
    /\ visible
    /\ placementAttr \in Placement
    /\ placementAttr # firstOf(opts.placement)

\* C8: after destroy() every size-change and scroll subscription is released and no
\* size-change or scroll signal invokes update().
C8_NoUpdateAfterDestroy ==
    destroyed =>
        /\ observed = {}
        /\ listeners = {}
        /\ lastEvent.kind \in SignalKinds => ~lastEvent.ranUpdate

\* a scroll signal after destroy() that moved the anchor to where another side
\* would be selected, and ran no update
C8_Witness ==
    /\ destroyed
    /\ lastEvent.kind = "scroll"
    /\ ~lastEvent.ranUpdate
    /\ placementAttr # selected

\* C9: while not destroyed, an anchor size change, a panel size change, an ancestor
\* scroll or a viewport size change each leave the active placement equal to the
\* selector's result for the current geometry.
C9_EveryChangeRecomputes ==
    (~destroyed /\ lastEvent.kind \in SignalKinds) => placementAttr = selected

\* C10: when show() makes the panel visible, the active placement equals the
\* selector's result for the geometry at the time of the call.
C10_ShowRecomputesFirst ==
    (lastEvent.kind = "show" /\ visible) => placementAttr = selected

\* show() made the panel visible with a placement other than the constructed one
C10_Witness ==
    /\ lastEvent.kind = "show"
    /\ visible
    /\ placementAttr \in Placement
    /\ placementAttr # firstOf(opts.placement)

ApiKinds == {"show", "hide", "toggle", "update"}

\* C11: show() on a visible panel leaves it visible and hide() on a hidden panel
\* leaves it hidden, with the native show/hide methods and on the fallback path.
C11_ShowHideIdempotent ==
    [][/\ (lastEvent'.kind = "show" /\ visible) => visible'
       /\ (lastEvent'.kind = "hide" /\ ~visible) => ~visible']_vars

\* C12: toggle() on a live controller flips visibility, on the native and on the
\* fallback path: a visible panel is hidden afterwards, a hidden panel is visible
\* afterwards with its placement recomputed.
C12_ToggleFlips ==
    [][(~destroyed /\ lastEvent'.kind = "toggle")
          => /\ visible' = ~visible
             /\ ~visible => placementAttr' = Select(opts, rect, viewport, panel)]_vars

\* C13: before destroy(), an update(), called explicitly or by a signal, leaves
\* the panel's visibility and the registered observers as they were.
C13_UpdateKeepsVisibility ==
    [][(~destroyed /\ lastEvent'.ranUpdate /\ lastEvent'.kind \in SignalKinds \cup {"update"})
          => /\ visible' = visible
             /\ open' = open
             /\ display' = display
             /\ observed' = observed
             /\ listeners' = listeners]_vars

\* an anchor size change ran update() on a visible panel with its observers in place
C13_Witness ==
    /\ ~destroyed
    /\ lastEvent.kind = "anchorResize"
    /\ lastEvent.ranUpdate
    /\ visible
    /\ observed # {}
    /\ listeners # {}

\* the table computeScores returns for the current geometry, and a side's entry in it
scoreTable == computeScores(rect, viewport, panel, opts.preference)

scoreEntry(p) == scoreTable[findIndex(scoreTable, p)]

\* the configured bias of a side, 0 when none is given
biasOf(p) == IF p \in DOMAIN opts.preference THEN opts.preference[p] ELSE 0

\* C14: the available space is the anchor's top offset for top, viewport height
\* minus the anchor's bottom offset for bottom, the anchor's left offset for left,
\* viewport width minus the anchor's right offset for right, zero and negative
\* values included, and the Policy B score table holds the same four values.
C14_SpacePerSide ==
    /\ getAvailableSpace(rect, viewport, "top") = rect.top
    /\ getAvailableSpace(rect, viewport, "bottom") = viewport.height - (rect.top + rect.height)
    /\ getAvailableSpace(rect, viewport, "left") = rect.left
    /\ getAvailableSpace(rect, viewport, "right") = viewport.width - (rect.left + rect.width)
    /\ isB =>
          LET t == scoreTable
          IN  /\ {t[i].placement : i \in 1..Len(t)} = Placement
              /\ \A i \in 1..Len(t) :
                    t[i].space = getAvailableSpace(rect, viewport, t[i].placement)

\* an evaluation where one side has zero space and another has negative space
C14_Witness ==
    /\ updated
    /\ isB
    /\ spaceOf("top") = 0
    /\ spaceOf("right") < 0
    /\ scoreEntry("right").space < 0

\* C15: Policy A with the fallbacks option omitted: preferred + default fallbacks
\* are all four sides, so a side that fits is selected whenever any side fits.
C15_DefaultCoversAllSides ==
    (updated /\ isA /\ fallbacks = defaultFallbacks(preferred))
        => /\ Range(candidatesA) = Placement
           /\ (\E p \in Placement : fits(p)) => fits(placementAttr)

\* the anchor's and the panel's extent across a side: widths for top and bottom,
\* heights for left and right
anchorAcross(p) == IF p \in {"top", "bottom"} THEN rect.width ELSE rect.height
panelAcross(p) == IF p \in {"top", "bottom"} THEN panel.width ELSE panel.height

\* C16 as stated: for each of the four sides, overflow = max(footprint dimension -
\* space, 0) and the raw score of computeScores is space - overflow + bias.
C16_ScoreWithoutMisalign ==
    (updated /\ isB) =>
        LET t == scoreTable
        IN  \A i \in 1..Len(t) :
               LET p == t[i].placement
               IN  /\ t[i].overflow = Max(requiredSpace(panel, p) - spaceOf(p), 0)
                   /\ t[i].score2 = 2 * spaceOf(p) - 2 * t[i].overflow + 2 * biasOf(p)

\* C16 as amended: for each of the four sides, overflow = max(footprint dimension -
\* space, 0) and the raw score of computeScores is space - overflow - misalign +
\* bias, with misalign = |anchor extent - panel extent| / 2 across the side and
\* bias 0 when none is configured (doubled here).
C16_ScoreWithMisalign ==
    (updated /\ isB) =>
        LET t == scoreTable
        IN  \A i \in 1..Len(t) :
               LET p == t[i].placement
               IN  /\ t[i].overflow = Max(requiredSpace(panel, p) - spaceOf(p), 0)
                   /\ t[i].score2 = 2 * spaceOf(p) - 2 * t[i].overflow + 2 * biasOf(p)
                                    - Abs(anchorAcross(p) - panelAcross(p))

\* a side with a configured bias, an overflow and a misalignment has been scored
C16_Witness ==
    /\ updated
    /\ isB
    /\ \E p \in Placement :
          /\ biasOf(p) # 0
          /\ scoreEntry(p).overflow > 0
          /\ scoreEntry(p).misalign2 > 0
          /\ \E q \in Placement \ DOMAIN opts.preference : scoreEntry(q).overflow = 0

\* C17 as stated: the misalign value of each of the four sides is 0.
C17_MisalignZero ==
    (updated /\ isB) => \A p \in Placement : scoreEntry(p).misalign2 = 0

\* C17 as amended: the misalign value of a side is half the absolute difference
\* between the anchor's and the panel's extent across that side (widths for top and
\* bottom, heights for left and right), whatever the anchor's position; it is 0
\* only when the two extents are equal (doubled here).
C17_MisalignIsHalfExtentDifference ==
    (updated /\ isB) =>
        LET t == scoreTable
        IN  \A i \in 1..Len(t) :
               t[i].misalign2 = Abs(anchorAcross(t[i].placement) - panelAcross(t[i].placement))

\* an anchor away from the viewport origin, narrower or wider than the panel
C17_Witness ==
    /\ updated
    /\ isB
    /\ rect.left > 0
    /\ rect.top > 0
    /\ rect.width # panel.width
    /\ scoreEntry("top").misalign2 > 0
    /\ scoreEntry("left").misalign2 = 0

\* the value the placement attribute reads before anything has assigned it
Unassigned == "unassigned"

\* C18 as stated: the placement attribute is assigned on the update() path only:
\* construction leaves it unassigned, and no step that runs no update() (hide(),
\* toggle() dispatching to hide, destroy(), an unsubscribed signal) changes it.
C18_OnlyUpdateAssigns ==
    /\ [](lastEvent.kind = "create" => placementAttr = Unassigned)
    /\ [][~lastEvent'.ranUpdate => placementAttr' = placementAttr]_vars

\* C18 as amended: construction assigns the placement attribute once (the preferred
\* placement), and from then on no step that runs no update() changes it.
C18_UpdateIsOnlyLaterWriter ==
    /\ [](lastEvent.kind = "create" => placementAttr = firstOf(opts.placement))
    /\ [][~lastEvent'.ranUpdate => placementAttr' = placementAttr]_vars

\* hide() closed a panel whose placement is not the constructed one, and kept it
C18_Witness ==
    /\ lastEvent.kind = "hide"
    /\ ~visible
    /\ placementAttr \in Placement
    /\ placementAttr # firstOf(opts.placement)

\* C19: in every reachable state, from the end of construction on, the active
\* placement is one of the four sides, for every accepted configuration.
C19_AlwaysASide ==
    placementAttr \in Placement

\* C20: once destroy() has been called, a later show(), hide(), toggle() or
\* update() changes neither the active placement nor the visibility of the panel.
C20_DestroyedIsTerminal ==
    [][(destroyed /\ lastEvent'.kind \in ApiKinds)
          => /\ placementAttr' = placementAttr
             /\ visible' = visible]_vars

\* C21: Policy A, for every geometry, preferred side and fallback list (duplicates
\* and the preferred side itself allowed in the list): the side returned is a member
\* of preferred + fallbacks, and it fails to fit only when no member fits.
C21_BestEffortFit ==
    (updated /\ isA) =>
        /\ placementAttr \in Range(candidatesA)
        /\ ~fits(placementAttr) => \A i \in 1..Len(candidatesA) : ~fits(candidatesA[i])

\* the preferred side does not fit and is listed again among the fallbacks, next to
\* a side that fits and is returned
C21_Witness ==
    /\ updated
    /\ isA
    /\ ~fits(preferred)
    /\ fallbacks # <<>>
    /\ fallbacks[1] = preferred
    /\ placementAttr \in Range(fallbacks)
    /\ placementAttr # preferred
    /\ fits(placementAttr)

====
